---- MODULE Spec2Model ----
(***************************************************************************)
(* A model of acquisitions_alerts.py: the change-detection and dispatch    *)
(* pipeline (identity keys, denylist filter, seen-sets, the two runners,   *)
(* the notifier, the ID-probing fallback and the top-level driver).        *)
(*                                                                         *)
(* Strings the code inspects (URL paths, titles, attribute texts, denylist *)
(* terms) are sequences of code points, so that splitting, isdigit,        *)
(* substring search, normalisation and comparison are computed as the      *)
(* code computes them.  Site names are never inspected and stay atoms.     *)
(***************************************************************************)
EXTENDS Integers, Sequences, FiniteSets, TLC

VARIABLES
    file,        \* the persisted state file: [seen : site -> set of keys, meta]
    state,       \* main's in-memory state dict (same shape)
    pc,          \* position of main: "idle", "site" (with idx), "save"
    idx,         \* index of the next source main runs (1..6)
    run,         \* number of runs started so far
    up,          \* the upstream: site -> set of listings it currently serves
    words,       \* FORBIDDEN_WORDS as configured for the current run
    configured,  \* bot token and chat id are both non-empty
    any_changed, \* main's any_changed
    dirty,       \* STATE_DIRTY
    log,         \* this run's send_telegram calls, in order
    ret,         \* this run: site -> what its adapter returned (a sequence)
    cur,         \* observations of this run that the properties read
    hist,        \* observations of earlier runs that the properties read
    bnd,         \* the bounds of this behaviour (runs, denylists, transports)
    arg,         \* input of the pure function under check
    res,         \* its result
    ppc          \* position of the pure-function check

mainVars == <<file, state, pc, idx, run, up, words, configured, any_changed,
              dirty, log, ret, cur, hist, bnd>>
pureVars == <<arg, res, ppc>>
vars == <<mainVars, pureVars>>

(***************************************************************************)
(* Strings as sequences of code points                                     *)
(***************************************************************************)
SLASH == 47
SPACE == 32

Range(s) == {s[i] : i \in 1..Len(s)}

\* Python's str.isdigit on the ASCII digits the sources use
isdigit(s) == Len(s) > 0 /\ \A i \in 1..Len(s) : s[i] \in 48..57

\* Python's string comparison a < b: lexicographic by code point
RECURSIVE StrLess(_, _)
StrLess(a, b) ==
    IF b = <<>> THEN FALSE
    ELSE IF a = <<>> THEN TRUE
    ELSE IF Head(a) # Head(b) THEN Head(a) < Head(b)
    ELSE StrLess(Tail(a), Tail(b))

\* needle in hay (Python's substring test)
IsSubstr(needle, hay) ==
    \E i \in 0..(Len(hay) - Len(needle)) :
        \A j \in 1..Len(needle) : hay[i + j] = needle[j]

\* s.split("/"): the pieces between slashes, empty ones included
RECURSIVE SplitAcc(_, _, _)
SplitAcc(s, piece, out) ==
    IF s = <<>> THEN Append(out, piece)
    ELSE IF Head(s) = SLASH THEN SplitAcc(Tail(s), <<>>, Append(out, piece))
    ELSE SplitAcc(Tail(s), Append(piece, Head(s)), out)

Split(s) == SplitAcc(s, <<>>, <<>>)

SelectSeqNonEmpty(ss) == SelectSeq(ss, LAMBDA x : x # <<>>)

\* " ".join(parts)
RECURSIVE Join(_)
Join(parts) ==
    IF parts = <<>> THEN <<>>
    ELSE IF Len(parts) = 1 THEN parts[1]
    ELSE parts[1] \o <<SPACE>> \o Join(Tail(parts))

(***************************************************************************)
(* text_clean, norm_cmp                                                    *)
(***************************************************************************)
RECURSIVE lstrip(_)
lstrip(s) == IF s # <<>> /\ Head(s) = SPACE THEN lstrip(Tail(s)) ELSE s

RECURSIVE rstrip(_)
rstrip(s) ==
    IF s # <<>> /\ s[Len(s)] = SPACE THEN rstrip(SubSeq(s, 1, Len(s) - 1)) ELSE s

strip(s) == rstrip(lstrip(s))

\* re.sub(r"\s+", " ", s): every run of blanks becomes one blank
RECURSIVE Collapse(_)
Collapse(s) ==
    IF Len(s) < 2 THEN s
    ELSE IF s[1] = SPACE /\ s[2] = SPACE THEN Collapse(Tail(s))
    ELSE <<s[1]>> \o Collapse(Tail(s))

text_clean(s) == Collapse(strip(s))

\* unicodedata.normalize("NFKD", .) on the letters the model uses:
\* an accented letter becomes its base letter followed by a combining mark
Decompose(c) ==
    IF c = 233 THEN <<101, 769>>        \* e acute
    ELSE IF c = 201 THEN <<69, 769>>    \* E acute
    ELSE IF c = 224 THEN <<97, 768>>    \* a grave
    ELSE <<c>>

combining(c) == c \in 768..879

lower(c) == IF c \in 65..90 THEN c + 32 ELSE c

RECURSIVE NFKD(_)
NFKD(s) == IF s = <<>> THEN <<>> ELSE Decompose(Head(s)) \o NFKD(Tail(s))

MapLower(s) == [i \in 1..Len(s) |-> lower(s[i])]

norm_cmp(s) == strip(MapLower(SelectSeq(NFKD(s), LAMBDA c : ~combining(c))))

(***************************************************************************)
(* Announcement and its key                                                *)
(***************************************************************************)
\* ann.meta.get(f, "")
Get(m, f) == IF f \in DOMAIN m THEN m[f] ELSE <<>>

NoMeta == [f \in {} |-> <<>>]

Ann(site, title, url, meta) ==
    [site |-> site, title |-> title, url |-> url, meta |-> meta]

\* The URL of an announcement is modelled by its path: within one source the
\* scheme and host are the same for every listing.
Segments(url) == SelectSeqNonEmpty(Split(url))

\* a key that takes the last all-digit segment
LastDigitSeg(segs) ==
    LET I == {i \in 1..Len(segs) : isdigit(segs[i])}
    IN  IF I = {} THEN <<>> ELSE segs[CHOOSE i \in I : \A j \in I : j <= i]

\* for seg in segments: if seg.isdigit(): the first such segment
FirstDigitSeg(segs) ==
    LET I == {i \in 1..Len(segs) : isdigit(segs[i])}
    IN  IF I = {} THEN <<>> ELSE segs[CHOOSE i \in I : \A j \in I : i <= j]

\* sha256 is modelled as collision-free: the digest stands for its input
sha256(raw) == raw

\* Announcement.key: "site:segment" or "site:hexdigest"
Key(a) ==
    LET segs == Segments(a.url)
        d    == FirstDigitSeg(segs)
    IN  IF d # <<>> THEN [site |-> a.site, kind |-> "seg", val |-> d]
        ELSE IF segs # <<>>
             THEN [site |-> a.site, kind |-> "seg", val |-> segs[Len(segs)]]
        ELSE [site |-> a.site, kind |-> "sha256",
              val |-> sha256(a.url \o <<124, 124>> \o a.title)]

(***************************************************************************)
(* Filter engine                                                           *)
(***************************************************************************)
\* the attributes forbidden_hit reads, in the order it joins them
HAY_FIELDS == <<"location", "price", "teaser", "type", "sector", "branche",
                "region", "description", "turnover", "omzet">>

Hay(a) ==
    Join(<<a.title>> \o [i \in 1..Len(HAY_FIELDS) |-> Get(a.meta, HAY_FIELDS[i])])

\* forbidden_hit(ann) with FORBIDDEN_WORDS = deny: the first term found, or ""
forbidden_hit(a, deny) ==
    LET ws    == [i \in 1..Len(SelectSeq(deny, LAMBDA w : strip(w) # <<>>)) |->
                    norm_cmp(SelectSeq(deny, LAMBDA w : strip(w) # <<>>)[i])]
        hay_n == norm_cmp(Hay(a))
        I     == {i \in 1..Len(ws) : ws[i] # <<>> /\ IsSubstr(ws[i], hay_n)}
    IN  IF I = {} THEN <<>> ELSE ws[CHOOSE i \in I : \A j \in I : i <= j]

\* FORBIDDEN_WORDS: horeca, restaurant, bar, traiteur, alimentaire
FORBIDDEN_WORDS ==
    << <<104,111,114,101,99,97>>,
       <<114,101,115,116,97,117,114,97,110,116>>,
       <<98,97,114>>,
       <<116,114,97,105,116,101,117,114>>,
       <<97,108,105,109,101,110,116,97,105,114,101>> >>

(***************************************************************************)
(* WE Transmission: JSON records to announcements                          *)
(***************************************************************************)
WET_SITE == "we-transmission"
BTK_SITE == "bedrijventekoop"

\* pick_first(d, keys): the first key present with a non-empty value, or none
\* (written as the empty string, which the callers treat alike)
pick_first(d, keys) ==
    LET I == {i \in 1..Len(keys) : keys[i] \in DOMAIN d /\ d[keys[i]] # <<>>}
    IN  IF I = {} THEN <<>> ELSE d[keys[CHOOSE i \in I : \A j \in I : i <= j]]

\* urljoin(WET_BASE, href) followed by normalize_url, on the path
absolute_url(href) ==
    IF href = <<>> THEN <<>>
    ELSE IF Head(href) = SLASH THEN href
    ELSE <<SLASH>> \o href

\* "/offres/" and "/catalogue"
OFFRES == <<47,111,102,102,114,101,115,47>>
WET_CATALOGUE_URL == <<47,99,97,116,97,108,111,103,117,101>>

\* an adapter that built the URL from the id even when the record gives one
WetUrlIdFirst(it) ==
    LET id == pick_first(it, <<"id", "uuid", "reference", "ref">>)
        url == pick_first(it, <<"url", "detailUrl", "permalink", "href", "link">>)
        slug == pick_first(it, <<"slug">>)
    IN  IF id # <<>> /\ slug # <<>> THEN OFFRES \o id \o <<45>> \o slug
        ELSE IF id # <<>> THEN OFFRES \o id
        ELSE IF url # <<>> THEN absolute_url(url)
        ELSE WET_CATALOGUE_URL

WetUrl(it) ==
    LET url  == pick_first(it, <<"url", "detailUrl", "permalink", "href", "link">>)
        id   == pick_first(it, <<"id", "uuid", "reference", "ref">>)
        slug == pick_first(it, <<"slug">>)
    IN  IF url # <<>> THEN absolute_url(url)
        ELSE IF id # <<>> /\ slug # <<>> THEN OFFRES \o id \o <<45>> \o slug
        ELSE IF id # <<>> THEN OFFRES \o id
        ELSE WET_CATALOGUE_URL

WetMeta(it) ==
    LET loc    == pick_first(it, <<"location", "localisation", "ville", "city",
                                   "region", "province">>)
        sector == pick_first(it, <<"sector", "secteur", "activity", "domaine">>)
        teaser == pick_first(it, <<"teaser", "summary", "resume",
                                   "descriptionShort", "shortDescription">>)
        has    == {f \in {"location", "sector", "teaser"} :
                      \/ f = "location" /\ loc # <<>>
                      \/ f = "sector" /\ sector # <<>>
                      \/ f = "teaser" /\ teaser # <<>>}
    IN  [f \in has |-> IF f = "location" THEN text_clean(loc)
                       ELSE IF f = "sector" THEN text_clean(sector)
                       ELSE text_clean(teaser)]

WetAnn(it) ==
    Ann(WET_SITE,
        text_clean(pick_first(it, <<"title", "titre", "name", "nom", "headline">>)),
        WetUrl(it), WetMeta(it))

\* uniq[x.url] = x over a list: first position of each URL, last value
UniqByUrl(xs) ==
    LET firsts == SelectSeq([i \in 1..Len(xs) |-> i],
                      LAMBDA i : \A j \in 1..(i - 1) : xs[j].url # xs[i].url)
        lastOf(i) == CHOOSE j \in 1..Len(xs) :
                        /\ xs[j].url = xs[i].url
                        /\ \A k \in (j + 1)..Len(xs) : xs[k].url # xs[i].url
    IN  [n \in 1..Len(firsts) |-> xs[lastOf(firsts[n])]]

\* wet_items_to_announcements(items) under the denylist deny
wet_items_to_announcements(items, deny) ==
    LET anns == [i \in 1..Len(items) |-> WetAnn(items[i])]
        kept == SelectSeq(anns, LAMBDA a : Len(a.title) >= 3
                                            /\ forbidden_hit(a, deny) = <<>>)
    IN  UniqByUrl(kept)

(***************************************************************************)
(* Notifier                                                                *)
(***************************************************************************)
\* One answer of the transport to session.post: the call raises, or it
\* returns a status code and, in the JSON body, parameters.retry_after
\* (0 when the body has none or does not parse).
Resp(raises, status, retry_after) ==
    [raises |-> raises, status |-> status, retry_after |-> retry_after]

ok(rr) == rr.status < 400

Min(a, b) == IF a <= b THEN a ELSE b

SEND_ATTEMPTS == 3
MAX_SLEEP == 60

\* a send loop that goes on to the next attempt after any response that is
\* not ok
RECURSIVE SendLoopAnyFailure(_, _, _)
SendLoopAnyFailure(resps, n, slept) ==
    IF n >= SEND_ATTEMPTS
    THEN [raised |-> FALSE, delivered |-> FALSE, attempts |-> n, slept |-> slept]
    ELSE LET rr == resps[n + 1]
         IN  IF rr.raises
             THEN [raised |-> TRUE, delivered |-> FALSE, attempts |-> n + 1,
                   slept |-> slept]
             ELSE IF ok(rr)
             THEN [raised |-> FALSE, delivered |-> TRUE, attempts |-> n + 1,
                   slept |-> slept]
             ELSE SendLoopAnyFailure(resps, n + 1,
                           Append(slept, Min(MAX_SLEEP, rr.retry_after + 1)))

\* The for loop of send_telegram from attempt n (0-based) on; resps[n + 1] is
\* what the transport answers to that attempt.
RECURSIVE SendLoop(_, _, _)
SendLoop(resps, n, slept) ==
    IF n >= SEND_ATTEMPTS
    THEN [raised |-> FALSE, delivered |-> FALSE, attempts |-> n, slept |-> slept]
    ELSE LET rr == resps[n + 1]
         IN  IF rr.raises
             THEN [raised |-> TRUE, delivered |-> FALSE, attempts |-> n + 1,
                   slept |-> slept]
             ELSE IF ok(rr)
             THEN [raised |-> FALSE, delivered |-> TRUE, attempts |-> n + 1,
                   slept |-> slept]
             ELSE IF rr.status = 429 /\ rr.retry_after > 0
             THEN SendLoop(resps, n + 1,
                           Append(slept, Min(MAX_SLEEP, rr.retry_after + 1)))
             ELSE [raised |-> FALSE, delivered |-> FALSE, attempts |-> n + 1,
                   slept |-> slept]

\* a send_telegram without the "if not bot_token or not chat_id: return"
send_telegramAlways(conf, resps) == SendLoop(resps, 0, <<>>)

\* send_telegram(session, bot_token, chat_id, message)
send_telegram(conf, resps) ==
    IF ~conf
    THEN [raised |-> FALSE, delivered |-> FALSE, attempts |-> 0, slept |-> <<>>]
    ELSE SendLoop(resps, 0, <<>>)

\* make_session: Retry(total=3, status_forcelist=[429, 500, 502, 503, 504],
\* allowed_methods=["GET", "POST"], raise_on_status=False)
RETRY_TOTAL == 3
STATUS_FORCELIST == {429, 500, 502, 503, 504}

\* One session.post through the adapter of make_session: wire[pos] is what the
\* server answers to the HTTP request at position pos (or the request fails).
\* The adapter repeats a request that failed or was answered with a status
\* of the forcelist while retries are left; then it returns the last
\* response, or raises for the last failure.  next: the position after it.
RECURSIVE AdapterLoop(_, _, _)
AdapterLoop(wire, pos, left) ==
    IF (wire[pos].raises \/ wire[pos].status \in STATUS_FORCELIST) /\ left > 0
    THEN AdapterLoop(wire, pos + 1, left - 1)
    ELSE [rr |-> wire[pos], next |-> pos + 1]

\* what n successive calls of session.post return, from position pos of the wire
RECURSIVE Posts(_, _, _)
Posts(wire, pos, n) ==
    IF n = 0 THEN <<>>
    ELSE <<AdapterLoop(wire, pos, RETRY_TOTAL).rr>>
            \o Posts(wire, AdapterLoop(wire, pos, RETRY_TOTAL).next, n - 1)

\* the number of HTTP requests n successive calls of session.post make
RECURSIVE Requests(_, _, _)
Requests(wire, pos, n) ==
    IF n = 0 THEN pos - 1
    ELSE Requests(wire, AdapterLoop(wire, pos, RETRY_TOTAL).next, n - 1)

(***************************************************************************)
(* The two runners                                                         *)
(***************************************************************************)
\* The value of state[site]: absent, a list of keys, or (hand-edited) a dict
\* ("dict"), a list that holds a list or an object ("badlist"), a string or a
\* number ("scalar").
Absent == [kind |-> "absent", keys |-> {}]

\* set(state.get(site_name, [])) raises TypeError: unhashable type
Unhashable(v) == v.kind = "badlist"

\* a runner whose state[site_name] = list(seen) stored an empty list
ListOfNothing(S) == [kind |-> "list", keys |-> {}]

\* state[site_name] = list(seen)
ListOf(S) == [kind |-> "list", keys |-> S]

\* a runner whose seen = set(...) forgot what the state holds
SeenOfNothing(v) == {}

\* seen = set(state.get(site, [])) if isinstance(state.get(site, []), list) else set()
SeenOf(v) == IF v.kind = "dict" THEN {} ELSE v.keys

\* uniq_by_key[it.key] = it over a list: first position of each key, last value
UniqByKey(xs) ==
    LET firsts == SelectSeq([i \in 1..Len(xs) |-> i],
                      LAMBDA i : \A j \in 1..(i - 1) : Key(xs[j]) # Key(xs[i]))
        lastOf(i) == CHOOSE j \in 1..Len(xs) :
                        /\ Key(xs[j]) = Key(xs[i])
                        /\ \A k \in (j + 1)..Len(xs) : Key(xs[k]) # Key(xs[i])
    IN  [n \in 1..Len(firsts) |-> xs[lastOf(firsts[n])]]

\* list.sort(key=lambda x: x.url): stable, ascending by URL
RECURSIVE InsertByUrl(_, _)
InsertByUrl(x, sorted) ==
    IF sorted = <<>> THEN <<x>>
    ELSE IF StrLess(x.url, Head(sorted).url) THEN <<x>> \o sorted
    ELSE <<Head(sorted)>> \o InsertByUrl(x, Tail(sorted))

RECURSIVE SortByUrl(_)
SortByUrl(xs) ==
    IF xs = <<>> THEN <<>>
    ELSE InsertByUrl(xs[Len(xs)], SortByUrl(SubSeq(xs, 1, Len(xs) - 1)))

\* the send cap (40 in the source, scaled)
MAX_NEW_PER_RUN == 2

\* a runner whose test were: if sent > MAX_NEW_PER_RUN: break
AtCapLate(sent) == sent > MAX_NEW_PER_RUN

\* if sent >= MAX_NEW_PER_RUN: break
AtCap(sent) == sent >= MAX_NEW_PER_RUN

\* One entry of a runner's trace: what the loop did with the item of that key.
Ev(k, ev, r) ==
    [key |-> k, ev |-> ev, delivered |-> r.delivered, attempts |-> r.attempts]

NoSend == [raised |-> FALSE, delivered |-> FALSE, attempts |-> 0, slept |-> <<>>]

\* The for loop of run_site over new_items from position i on.
\* e.deny: FORBIDDEN_WORDS; e.conf: Telegram configured; e.fmt[k]: what
\* format_fn does for the item of key k ("body": a message, "none": None or
\* "", "raise": an exception); e.snd[k]: the transport's answers to its send.
RECURSIVE RunSiteLoop(_, _, _, _)
RunSiteLoop(items, i, acc, e) ==
    IF i > Len(items) THEN acc
    ELSE
    LET ann == items[i]
        k   == Key(ann)
    IN  IF forbidden_hit(ann, e.deny) # <<>>
        THEN RunSiteLoop(items, i + 1,
                 [acc EXCEPT !.seen = @ \cup {k}, !.changed = TRUE,
                             !.trace = Append(@, Ev(k, "filtered", NoSend))], e)
        ELSE IF AtCap(acc.sent)
        THEN [acc EXCEPT !.trace = Append(@, Ev(k, "break", NoSend))]
        ELSE IF e.fmt[k] # "body"
        THEN RunSiteLoop(items, i + 1,
                 [acc EXCEPT !.seen = @ \cup {k}, !.changed = TRUE,
                             !.trace = Append(@, Ev(k, IF e.fmt[k] = "raise"
                                                       THEN "format_error"
                                                       ELSE "no_body", NoSend))], e)
        ELSE LET r == send_telegram(e.conf, e.snd[k])
             IN  IF r.raised
                 THEN RunSiteLoop(items, i + 1,
                          [acc EXCEPT !.trace = Append(@, Ev(k, "send_error", r))], e)
                 ELSE RunSiteLoop(items, i + 1,
                          [acc EXCEPT !.sent = @ + 1, !.seen = @ \cup {k},
                                      !.changed = TRUE,
                                      !.trace = Append(@, Ev(k, "sent", r))], e)

\* run_site from "Dedup by key" on: v is state[site] at entry, all_items what
\* the page fetches accumulated.  wrote: state[site] was assigned.
RunSiteBody(v, all_items, e) ==
    LET seen      == SeenOf(v)
        items     == UniqByKey(all_items)
        new_items == SortByUrl(SelectSeq(items, LAMBDA a : Key(a) \notin seen))
        out       == RunSiteLoop(new_items, 1,
                         [seen |-> seen, sent |-> 0, changed |-> FALSE,
                          trace |-> <<>>], e)
    IN  IF new_items = <<>>
        THEN [new |-> 0, sent |-> 0, changed |-> FALSE, wrote |-> FALSE,
              value |-> v, trace |-> <<>>]
        ELSE [new |-> Len(new_items), sent |-> out.sent, changed |-> out.changed,
              wrote |-> TRUE, value |-> ListOf(out.seen), trace |-> out.trace]

\* The for loop of run_site_direct over new_items from position i on.
RECURSIVE DirectLoop(_, _, _, _)
DirectLoop(items, i, acc, e) ==
    IF i > Len(items) THEN acc
    ELSE
    LET ann == items[i]
        k   == Key(ann)
    IN  IF forbidden_hit(ann, e.deny) # <<>>
        THEN DirectLoop(items, i + 1,
                 [acc EXCEPT !.seen = @ \cup {k}, !.changed = TRUE,
                             !.trace = Append(@, Ev(k, "filtered", NoSend))], e)
        ELSE IF AtCap(acc.sent)
        THEN [acc EXCEPT !.trace = Append(@, Ev(k, "break", NoSend))]
        ELSE IF e.fmt[k] # "body"
        THEN DirectLoop(items, i + 1,
                 [acc EXCEPT !.seen = @ \cup {k}, !.changed = TRUE,
                             !.trace = Append(@, Ev(k, IF e.fmt[k] = "raise"
                                                       THEN "format_error"
                                                       ELSE "no_body", NoSend))], e)
        ELSE LET r == send_telegram(e.conf, e.snd[k])
             IN  IF r.raised
                 THEN DirectLoop(items, i + 1,
                          [acc EXCEPT !.trace = Append(@, Ev(k, "send_error", r))], e)
                 ELSE DirectLoop(items, i + 1,
                          [acc EXCEPT !.sent = @ + 1, !.seen = @ \cup {k},
                                      !.changed = TRUE,
                                      !.trace = Append(@, Ev(k, "sent", r))], e)

\* a run_site_direct that does not sort new_items
DirectBodyUnsorted(v, fetched, e) ==
    LET seen      == SeenOf(v)
        items     == UniqByKey(fetched)
        new_items == SelectSeq(items, LAMBDA a : Key(a) \notin seen)
        out       == DirectLoop(new_items, 1,
                         [seen |-> seen, sent |-> 0, changed |-> FALSE,
                          trace |-> <<>>], e)
    IN  IF new_items = <<>>
        THEN [new |-> 0, sent |-> 0, changed |-> FALSE, wrote |-> FALSE,
              value |-> v, trace |-> <<>>]
        ELSE [new |-> Len(new_items), sent |-> out.sent, changed |-> out.changed,
              wrote |-> TRUE, value |-> ListOf(out.seen), trace |-> out.trace]

\* run_site_direct after a fetch that returned items
DirectBody(v, fetched, e) ==
    LET seen      == SeenOf(v)
        items     == UniqByKey(fetched)
        new_items == SortByUrl(SelectSeq(items, LAMBDA a : Key(a) \notin seen))
        out       == DirectLoop(new_items, 1,
                         [seen |-> seen, sent |-> 0, changed |-> FALSE,
                          trace |-> <<>>], e)
    IN  IF new_items = <<>>
        THEN [new |-> 0, sent |-> 0, changed |-> FALSE, wrote |-> FALSE,
              value |-> v, trace |-> <<>>]
        ELSE [new |-> Len(new_items), sent |-> out.sent, changed |-> out.changed,
              wrote |-> TRUE, value |-> ListOf(out.seen), trace |-> out.trace]

(***************************************************************************)
(* State and its meta side channel                                         *)
(***************************************************************************)
HTML_SITES == <<"cofim", "commerce-a-remettre", "overnamemarkt", "cessionpro">>
SITES == Range(HTML_SITES) \cup {WET_SITE, BTK_SITE}

\* state as main holds it: the value under each site name, and under "_meta"
\* the two fields the sources keep ("" and 0: no such field)
EmptyState ==
    [seen |-> [s \in SITES |-> Absent], meta |-> [api_url |-> "", last_id |-> 0]]

\* a meta_set that stores the value and leaves STATE_DIRTY alone
meta_setQuiet(st, d, key, value) ==
    [state |-> [st EXCEPT !.meta[key] = value], dirty |-> d]

\* meta_set(state, site, key, value): [state, dirty]
meta_set(st, d, key, value) ==
    IF st.meta[key] # value
    THEN [state |-> [st EXCEPT !.meta[key] = value], dirty |-> TRUE]
    ELSE [state |-> st, dirty |-> d]

\* the order in which main calls the runners
ORDER == HTML_SITES \o <<WET_SITE, BTK_SITE>>

\* The state file: missing, or holding a JSON object ("object"), another JSON
\* value ("array") or no JSON at all ("garbage").
NoFile == [exists |-> FALSE, form |-> "object", data |-> EmptyState]

\* a load_state that returns the empty state whatever the file holds
load_stateEmpty(f) == EmptyState

\* load_state(): {} for a missing or unparsable file and for a top level that
\* is no dict; of a dict, the values that are a list or a dict
load_state(f) ==
    IF ~f.exists \/ f.form # "object" THEN EmptyState
    ELSE [seen |-> [s \in SITES |->
                      IF f.data.seen[s].kind \in {"list", "badlist", "dict"}
                      THEN f.data.seen[s] ELSE Absent],
          meta |-> f.data.meta]

\* save_state(state)
save_state(st) == [exists |-> TRUE, form |-> "object", data |-> st]

(***************************************************************************)
(* Upstream listings                                                       *)
(***************************************************************************)
\* An upstream listing of a page-based source: its place in the source's
\* order, the result page that shows it and the announcement the parser makes
\* of it.  A listing of WE Transmission: place, page and its JSON record.  A
\* listing of Bedrijventekoop: its numeric id, the title of its anchor and h1,
\* and the fields of its detail page.
RECURSIVE SetToSeq(_)
SetToSeq(S) ==
    IF S = {} THEN <<>>
    ELSE LET x == CHOOSE y \in S : \A z \in S : y.n <= z.n
         IN  <<x>> \o SetToSeq(S \ {x})

\* fetch_fn(session, page) when the request succeeds
FetchPage(listings, page) ==
    LET xs == SetToSeq({l \in listings : l.page = page})
    IN  UniqByUrl([i \in 1..Len(xs) |-> xs[i].ann])

\* str(listing_id)
RECURSIVE Digits(_)
Digits(n) == IF n < 10 THEN <<48 + n>> ELSE Digits(n \div 10) \o <<48 + (n % 10)>>

\* "/te-koop-aangeboden/"
BTK_PATH == <<47,116,101,45,107,111,111,112,45,97,97,110,103,101,98,111,100,
              101,110,47>>

BtkUrl(id) == BTK_PATH \o Digits(id)

\* parse_btk_list_fragment over the anchors of the listings in xs
parse_btk_list_fragment(xs) ==
    UniqByUrl([i \in 1..Len(xs) |-> Ann(BTK_SITE, xs[i].title, BtkUrl(xs[i].n), NoMeta)])

\* fetch_btk_detail_by_id(session, id) when session.get returns: a 404 when no
\* listing of live has that id, else its page.  The result is a list of at
\* most one announcement (None: the empty list).
fetch_btk_detail_by_id(id, live, deny) ==
    IF \A l \in live : l.n # id THEN <<>>
    ELSE LET l   == CHOOSE x \in live : x.n = id
             ann == Ann(BTK_SITE, text_clean(l.title), BtkUrl(id), l.probe)
         IN  IF Len(ann.title) < 3 \/ forbidden_hit(ann, deny) # <<>>
             THEN <<>> ELSE <<ann>>

\* meta.update(d): d's fields replace meta's
Update(m, d) ==
    [f \in DOMAIN m \cup DOMAIN d |-> IF f \in DOMAIN d THEN d[f] ELSE m[f]]

TRUE_TEXT == <<116,114,117,101>>

\* format_bedrijventekoop_enriched(session, ann): got is "error" when the
\* detail request fails, else the fields parse_btk_detail extracts
format_bedrijventekoop_enriched(ann, failed, d, deny) ==
    IF ~failed /\ Get(d, "inactive") = TRUE_TEXT THEN "none"
    ELSE LET title    == IF ~failed /\ Get(d, "title") # <<>> THEN d["title"]
                         ELSE ann.title
             meta     == IF failed THEN ann.meta ELSE Update(ann.meta, d)
             enriched == Ann(ann.site, title, ann.url, meta)
         IN  IF forbidden_hit(enriched, deny) # <<>> THEN "none" ELSE "body"

(***************************************************************************)
(* Bedrijventekoop: the ID-probing fallback                                *)
(***************************************************************************)
\* the probe budget (40 in the source, scaled)
BTK_MAX_PROBE_PER_RUN == 2

\* a probe loop whose highest_seen stays what it was
KeepFirst(a, b) == a

Max(a, b) == IF a >= b THEN a ELSE b

\* a fallback whose range were: list(range(last_id, max_id + 1))[:BTK_MAX_PROBE_PER_RUN]
ToProbeFromLast(last_id, max_id) ==
    [i \in 1..Min(BTK_MAX_PROBE_PER_RUN, max_id - last_id + 1) |-> last_id + i - 1]

\* list(range(last_id + 1, max_id + 1))[:BTK_MAX_PROBE_PER_RUN]
ToProbe(last_id, max_id) ==
    [i \in 1..Min(BTK_MAX_PROBE_PER_RUN, max_id - last_id) |-> last_id + i]

\* The probe loop: presp[id] says whether session.get raises for that id.
RECURSIVE ProbeLoop(_, _, _, _, _, _)
ProbeLoop(to_probe, i, acc, live, presp, deny) ==
    IF i > Len(to_probe) THEN acc
    ELSE LET id == to_probe[i]
         IN  IF presp[id] = "raise"
             THEN ProbeLoop(to_probe, i + 1,
                      [acc EXCEPT !.highest_seen = Max(@, id)], live, presp, deny)
             ELSE ProbeLoop(to_probe, i + 1,
                      [acc EXCEPT !.new_items = @ \o fetch_btk_detail_by_id(id, live, deny),
                                  !.highest_seen = Max(@, id)], live, presp, deny)

\* fetch_btk_listings_fallback(session, state): max_id is the largest id the
\* two pages show (0: they show none, or neither could be fetched).
fetch_btk_listings_fallback(st, d, max_id, live, presp, deny) ==
    LET last_id  == st.meta.last_id
        to_probe == ToProbe(last_id, max_id)
        out      == ProbeLoop(to_probe, 1,
                        [new_items |-> <<>>, highest_seen |-> last_id],
                        live, presp, deny)
        quiet    == [items |-> <<>>, state |-> st, dirty |-> d, probed |-> <<>>]
    IN  IF max_id = 0 THEN quiet
        ELSE IF last_id = 0
        THEN [quiet EXCEPT !.state = meta_set(st, d, "last_id", max_id).state,
                           !.dirty = meta_set(st, d, "last_id", max_id).dirty]
        ELSE IF max_id <= last_id THEN quiet
        ELSE [items  |-> out.new_items,
              state  |-> meta_set(st, d, "last_id", out.highest_seen).state,
              dirty  |-> meta_set(st, d, "last_id", out.highest_seen).dirty,
              probed |-> to_probe]

(***************************************************************************)
(* WE Transmission: the cached or discovered endpoint                      *)
(***************************************************************************)
WET_PAGES_TO_TRY == 3

\* try_fetch_wet_listings_from_endpoint: an endpoint that serves listings
\* answers a page with that page's records, any other endpoint with nothing
TryFetch(ep, page, serve, listings, deny) ==
    IF ep \in serve
    THEN LET xs == SetToSeq({l \in listings : l.page = page})
         IN  wet_items_to_announcements([i \in 1..Len(xs) |-> xs[i].rec], deny)
    ELSE <<>>

\* for page in range(1, WET_PAGES_TO_TRY + 1): ... from page on
RECURSIVE WetPages(_, _, _, _, _, _)
WetPages(ep, page, all_items, serve, listings, deny) ==
    IF page > WET_PAGES_TO_TRY THEN all_items
    ELSE LET items == TryFetch(ep, page, serve, listings, deny)
         IN  IF page > 1 /\ items = <<>> THEN all_items
             ELSE WetPages(ep, page + 1, all_items \o items, serve, listings, deny)

\* the requests of that loop from page on
RECURSIVE WetPageTrace(_, _, _, _, _, _)
WetPageTrace(ep, page, trace, serve, listings, deny) ==
    IF page > WET_PAGES_TO_TRY THEN trace
    ELSE LET items == TryFetch(ep, page, serve, listings, deny)
             t     == Append(trace, [page |-> page, n |-> Len(items),
                                     failed |-> FALSE])
         IN  IF page > 1 /\ items = <<>> THEN t
             ELSE WetPageTrace(ep, page + 1, t, serve, listings, deny)

\* for api_url in endpoints: ... from position i on
RECURSIVE WetEndpoints(_, _, _, _, _, _, _)
WetEndpoints(endpoints, i, st, d, serve, listings, deny) ==
    IF i > Len(endpoints) THEN [items |-> <<>>, state |-> st, dirty |-> d]
    ELSE LET all_items == WetPages(endpoints[i], 1, <<>>, serve, listings, deny)
         IN  IF endpoints[i] # "" /\ all_items # <<>>
             THEN [items |-> all_items,
                   state |-> meta_set(st, d, "api_url", endpoints[i]).state,
                   dirty |-> meta_set(st, d, "api_url", endpoints[i]).dirty]
             ELSE WetEndpoints(endpoints, i + 1, st, d, serve, listings, deny)

\* the endpoints that loop queries, in order
RECURSIVE WetQueried(_, _, _, _, _, _)
WetQueried(endpoints, i, acc, serve, listings, deny) ==
    IF i > Len(endpoints) THEN acc
    ELSE IF endpoints[i] = "" THEN WetQueried(endpoints, i + 1, acc, serve, listings, deny)
    ELSE IF WetPages(endpoints[i], 1, <<>>, serve, listings, deny) # <<>>
         THEN Append(acc, endpoints[i])
         ELSE WetQueried(endpoints, i + 1, Append(acc, endpoints[i]), serve,
                         listings, deny)

\* a fetch_wet_listings that runs discovery whatever meta holds
fetch_wet_listingsRediscover(st, d, discovered, serve, listings, deny) ==
    WetEndpoints(discovered, 1, st, d, serve, listings, deny)

\* fetch_wet_listings(session, state): discovered is what
\* discover_wet_api_endpoints returns when it is called
fetch_wet_listings(st, d, discovered, serve, listings, deny) ==
    LET cached == st.meta.api_url
    IN  WetEndpoints(IF cached # "" THEN <<cached>> ELSE discovered, 1,
                     st, d, serve, listings, deny)

(***************************************************************************)
(* The environment: transports, denylists, upstream universes              *)
(***************************************************************************)
OK200  == Resp(FALSE, 200, 0)
E400   == Resp(FALSE, 400, 0)
E429   == Resp(FALSE, 429, 5)
RAISES == Resp(TRUE, 0, 0)

\* what the transport answers to the (at most three) attempts of one send
Scripts ==
    { <<OK200, OK200, OK200>>,      \* delivered at once
      <<E400, E400, E400>>,         \* refused
      <<E429, E429, E429>>,         \* rate-limited until the retries run out
      <<E429, OK200, OK200>>,       \* rate-limited once, then delivered
      <<RAISES, RAISES, RAISES>> }  \* the request raises

GARAGE  == <<71,97,114,97,103,101>>
ATELIER == <<65,116,101,108,105,101,114>>
BAR     == <<66,97,114>>
HORECA  == <<72,111,114,101,99,97>>

HtmlListing(site, n, page, title, url) ==
    [n |-> n, page |-> page, ann |-> Ann(site, title, url, NoMeta)]

\* paths /a ... /e: with the scaled cap, /d is the item the loop stops at
CofimRich ==
    { HtmlListing("cofim", 1, 1, BAR,     <<47,97>>),
      HtmlListing("cofim", 2, 1, GARAGE,  <<47,98>>),
      HtmlListing("cofim", 3, 1, ATELIER, <<47,99>>),
      HtmlListing("cofim", 4, 2, GARAGE,  <<47,100>>),
      HtmlListing("cofim", 5, 2, BAR,     <<47,101>>) }

CofimSmall ==
    { HtmlListing("cofim", 1, 1, GARAGE,  <<47,98>>),
      HtmlListing("cofim", 2, 2, ATELIER, <<47,99>>) }

\* one listing on each of three pages, and one more on the first
CofimPages ==
    { HtmlListing("cofim", 1, 1, BAR,     <<47,97>>),
      HtmlListing("cofim", 2, 1, GARAGE,  <<47,98>>),
      HtmlListing("cofim", 3, 2, ATELIER, <<47,99>>),
      HtmlListing("cofim", 4, 3, GARAGE,  <<47,100>>) }

CarSmall == { HtmlListing("commerce-a-remettre", 1, 1, GARAGE, <<47,102>>) }

\* WE Transmission records: title, id 991 and url /123/x  |  title Bar, id 7
WetListing(n, page, rec) == [n |-> n, page |-> page, rec |-> rec]

WetSmall ==
    { WetListing(1, 1, [f \in {"title", "id", "url"} |->
                           IF f = "title" THEN GARAGE
                           ELSE IF f = "id" THEN <<57,57,49>>
                           ELSE <<47,49,50,51,47,120>>]),
      WetListing(2, 1, [f \in {"title", "id"} |->
                           IF f = "title" THEN BAR ELSE <<55>>]) }

\* the two endpoints discovery can find, in ranked order
ENDPOINTS == <<"/backend/api/v1/offres", "/backend/api/v1/search">>

\* Bedrijventekoop listings: ids above ID_BASE
ID_BASE == 500
MaxIds == 3

BtkListing(n, title, probe, detail) ==
    [n |-> n, title |-> title, probe |-> probe, detail |-> detail]

Field(f, v) == [x \in {f} |-> v]

BtkRich ==
    { BtkListing(ID_BASE + 1, GARAGE, NoMeta, Field("title", GARAGE)),
      BtkListing(ID_BASE + 2, ATELIER, NoMeta, Field("branche", HORECA)),
      BtkListing(ID_BASE + 3, BAR, NoMeta, Field("title", BAR)) }

\* a found listing, an id that is gone (502), a listing the probe filters
BtkGap ==
    { BtkListing(ID_BASE + 1, GARAGE, NoMeta, Field("title", GARAGE)),
      BtkListing(ID_BASE + 3, BAR, NoMeta, Field("title", BAR)) }

BtkSmall == { BtkListing(ID_BASE + 1, GARAGE, NoMeta, Field("title", GARAGE)) }

MAX_PAGES == [s \in Range(HTML_SITES) |-> IF s = "cessionpro" THEN 1 ELSE 3]


(***************************************************************************)
(* The top-level driver                                                    *)
(***************************************************************************)
MaxRuns == 2

NoWet == [discovery |-> FALSE, queried |-> <<>>, serve |-> {}]

\* What the properties read of the run in progress (or just finished):
\*   matched  keys of the new items of this run that match the denylist
\*   todo     keys of the new items of this run that do not
\*   pending  the keys of todo that the run left out of the seen-set
\*   errors   a request failed, or a source showed only part of its listings
\*   sent     per source, the runner's count of alerts sent
\*   last0    _meta.last_id as loaded
\*   loaded   what load_state returned at the start of the run
\*   new      per source, the runner's count of new items (new_detected)
\*   saved    the run called save_state
\*   file0    the state file as the run found it
\*   killed   the process was stopped before main returned
\*   visited  the sources whose runner main has called, in the order of the calls
\*   raised   an exception left main
\*   wet      fetch_wet_listings in this run: whether it called discovery, the
\*            endpoints it queried in order, and the endpoints that served
\*   primary  what fetch_btk_listings_via_post did in this run: "items" (it
\*            returned listings), "empty" (it returned none or None),
\*            "raised" (its landing page request raised), "none" (not called)
\*   pages    per source, the result pages its adapter was asked for, in the
\*            order of the requests, each with the number of items it gave
\*   probed, max_id, fallback: the ID-probing fallback's work in this run
FreshCur ==
    [matched |-> {}, todo |-> {}, pending |-> {}, probed |-> <<>>, max_id |-> 0,
     fallback |-> FALSE, errors |-> FALSE, sent |-> [s \in SITES |-> 0],
     last0 |-> 0, loaded |-> EmptyState, new |-> [s \in SITES |-> 0],
     saved |-> FALSE, file0 |-> NoFile,
     killed |-> FALSE, visited |-> <<>>, raised |-> FALSE,
     pages |-> [s \in SITES |-> <<>>], wet |-> NoWet, primary |-> "none"]

\* What the properties read of the runs before it.
FreshHist ==
    [okEver |-> {}, matchedEver |-> {}, pending |-> {}, probedEver |-> {},
     ret |-> [s \in SITES |-> <<>>], clean |-> TRUE, seed |-> 0]

\* new_items of a runner for what the adapter returned
NewItems(v, fetched) ==
    SortByUrl(SelectSeq(UniqByKey(fetched), LAMBDA a : Key(a) \notin SeenOf(v)))

Todo(v, fetched, deny) ==
    {Key(a) : a \in {x \in Range(NewItems(v, fetched)) : forbidden_hit(x, deny) = <<>>}}

Hits(v, fetched, deny) ==
    {Key(a) : a \in {x \in Range(NewItems(v, fetched)) : forbidden_hit(x, deny) # <<>>}}

NoFb == [probed |-> <<>>, max_id |-> 0, fallback |-> FALSE, pages |-> <<>>,
         wet |-> NoWet, primary |-> "none"]

\* What one source's step leaves in main's variables: st and d are state and
\* STATE_DIRTY after the fetch, todo the keys of the new items that pass the
\* denylist, r the runner's result (new_detected, alerts_sent, changed_state).
Record(site, st, d, fetched, todo, r, matched, failed, fb) ==
    /\ state' = IF r.wrote THEN [st EXCEPT !.seen[site] = r.value] ELSE st
    /\ dirty' = d
    /\ any_changed' = (any_changed \/ r.changed)
    /\ log' = log \o r.trace
    /\ ret' = [ret EXCEPT ![site] = fetched]
    /\ cur' = [cur EXCEPT
                 !.matched = @ \cup matched,
                 !.todo = @ \cup todo,
                 !.pending = @ \cup (todo \ SeenOf(r.value)),
                 !.errors = @ \/ failed,
                 !.sent[site] = r.sent,
                 !.new[site] = r.new,
                 !.visited = Append(@, site),
                 !.pages[site] = fb.pages,
                 !.wet = IF site = WET_SITE THEN fb.wet ELSE @,
                 !.primary = IF site = BTK_SITE THEN fb.primary ELSE @,
                 !.probed = fb.probed, !.max_id = fb.max_id,
                 !.fallback = fb.fallback]

\* run_site_direct's "fetch error (direct)": return (0, 0, False)
FetchError(site) ==
    /\ UNCHANGED <<state, dirty, any_changed, log, ret>>
    /\ cur' = [cur EXCEPT !.errors = TRUE, !.visited = Append(@, site),
                           !.primary = IF site = BTK_SITE THEN "raised" ELSE @]

\* a driver that saved the state after every source
AdvanceSaving ==
    /\ idx' = idx + 1
    /\ pc' = IF idx = Len(HTML_SITES) + 2 THEN "save" ELSE "site"
    /\ file' = IF any_changed' \/ dirty' THEN save_state(state') ELSE file
    /\ UNCHANGED <<run, up, words, configured, hist, bnd, pureVars>>

\* a driver that goes to the save as soon as a source had an error
AdvanceUntilError ==
    /\ idx' = idx + 1
    /\ pc' = IF idx = Len(HTML_SITES) + 2 \/ cur'.errors THEN "save" ELSE "site"
    /\ UNCHANGED <<file, run, up, words, configured, hist, bnd, pureVars>>

Advance ==
    /\ idx' = idx + 1
    /\ pc' = IF idx = Len(HTML_SITES) + 2 THEN "save" ELSE "site"
    /\ UNCHANGED <<file, run, up, words, configured, hist, bnd, pureVars>>

\* main, from its start to the first source.  The observations of the run
\* before move into hist.
Load ==
    /\ pc = "idle"
    /\ run < bnd.runs
    /\ run' = run + 1
    /\ state' = load_state(file)
    /\ any_changed' = FALSE
    /\ dirty' = FALSE
    /\ \E w \in bnd.deny : words' = w
    /\ \E c \in bnd.conf : configured' = c
    /\ log' = <<>>
    /\ ret' = [s \in SITES |-> <<>>]
    /\ cur' = [FreshCur EXCEPT !.last0 = load_state(file).meta.last_id,
                                !.loaded = load_state(file), !.file0 = file]
    /\ hist' = IF run = 0 THEN hist
               ELSE [okEver      |-> hist.okEver
                                       \cup {log[i].key : i \in {j \in 1..Len(log) :
                                                                   log[j].delivered}},
                     matchedEver |-> hist.matchedEver \cup cur.matched,
                     pending     |-> cur.pending,
                     probedEver  |-> hist.probedEver \cup Range(cur.probed),
                     ret         |-> ret,
                     clean       |-> \A i \in 1..Len(log) :
                                         log[i].ev \notin {"break", "send_error"},
                     seed        |-> IF hist.seed = 0
                                     THEN load_state(file).meta.last_id
                                     ELSE hist.seed]
    /\ pc' = "site"
    /\ idx' = 1
    /\ UNCHANGED <<file, up, bnd, pureVars>>

\* fetch_fn(session, page) of a page-based source
FetchFn(site, page) ==
    IF site = "cessionpro"
    THEN LET xs == SetToSeq(up[site])
         IN  UniqByUrl([i \in 1..Len(xs) |-> xs[i].ann])
    ELSE FetchPage(up[site], page)

\* a page loop that gives up the source's pages at the first fetch that raises
RECURSIVE PageLoopAbort(_, _, _, _)
PageLoopAbort(site, page, all_items, fails) ==
    IF page > MAX_PAGES[site] \/ page \in fails THEN all_items
    ELSE PageLoopAbort(site, page + 1, all_items \o FetchFn(site, page), fails)

\* run_site's page loop from page on; fails: the pages whose fetch raises
RECURSIVE PageLoop(_, _, _, _)
PageLoop(site, page, all_items, fails) ==
    IF page > MAX_PAGES[site] THEN all_items
    ELSE PageLoop(site, page + 1,
                  IF page \in fails THEN all_items
                  ELSE all_items \o FetchFn(site, page), fails)

\* one request for a result page: its number, how many items it gave, and
\* whether it raised
PageEv(page, items, failed) ==
    [page |-> page, n |-> IF failed THEN 0 ELSE Len(items), failed |-> failed]

\* the requests of run_site's page loop from page on
RECURSIVE PageTrace(_, _, _, _)
PageTrace(site, page, trace, fails) ==
    IF page > MAX_PAGES[site] THEN trace
    ELSE PageTrace(site, page + 1,
                   Append(trace, PageEv(page, FetchFn(site, page), page \in fails)),
                   fails)

\* one iteration of main's loop over html_sites: run_site for that source
RunHtml ==
    /\ pc = "site"
    /\ idx \in 1..Len(HTML_SITES)
    /\ ~Unhashable(state.seen[HTML_SITES[idx]])
    /\ LET site == HTML_SITES[idx]
       IN  \E fails \in {F \cap 1..MAX_PAGES[site] : F \in bnd.fails} :
           \E all_items \in {PageLoop(site, 1, <<>>, fails)} :
           \E todo \in {Todo(state.seen[site], all_items, words)} :
           \E snd \in [todo -> bnd.scripts], fmt \in [todo -> bnd.fmt] :
           \E r \in {RunSiteBody(state.seen[site], all_items,
                                 [deny |-> words, conf |-> configured,
                                  fmt |-> fmt, snd |-> snd])} :
              Record(site, state, dirty, all_items, todo, r,
                     Hits(state.seen[site], all_items, words), fails # {},
                     [NoFb EXCEPT !.pages = PageTrace(site, 1, <<>>, fails)])
    /\ Advance

\* the new records of the first page that wet_items_to_announcements drops for
\* a denylist term, as keys
WetDropped(v) ==
    {k \in {Key(WetAnn(l.rec)) : l \in {x \in up[WET_SITE] :
                /\ x.page = 1
                /\ Len(WetAnn(x.rec).title) >= 3
                /\ forbidden_hit(WetAnn(x.rec), words) # <<>>}} :
        k \notin SeenOf(v)}

\* main's run_site_direct call for WE Transmission
RunWet ==
    /\ pc = "site"
    /\ idx = Len(HTML_SITES) + 1
    /\ ~Unhashable(state.seen[WET_SITE])
    /\ \/ /\ state.meta.api_url = ""       \* discovery's first request raises
          /\ FetchError(WET_SITE)
       \/ \E discovered \in bnd.disc, serve \in bnd.serve :
          \E f \in {fetch_wet_listings(state, dirty, discovered, serve,
                                        up[WET_SITE], words)} :
          \E v \in {f.state.seen[WET_SITE]} :
          \E todo \in {Todo(v, f.items, words)} :
          \E snd \in [todo -> bnd.scripts], fmt \in [todo -> bnd.fmt] :
          \E r \in {DirectBody(v, f.items,
                                [deny |-> words, conf |-> configured,
                                 fmt |-> fmt, snd |-> snd])} :
             Record(WET_SITE, f.state, f.dirty, f.items, todo, r,
                    Hits(v, f.items, words)
                      \cup (IF f.items # <<>> THEN WetDropped(v) ELSE {}),
                    f.items = <<>> /\ up[WET_SITE] # {},
                    [NoFb EXCEPT !.pages =
                        WetPageTrace(IF f.items # <<>> THEN f.state.meta.api_url
                                     ELSE IF state.meta.api_url # ""
                                          THEN state.meta.api_url
                                          ELSE Head(discovered),
                                     1, <<>>, serve, up[WET_SITE], words),
                           !.wet = [discovery |-> state.meta.api_url = "",
                                    queried |-> WetQueried(
                                        IF state.meta.api_url # ""
                                        THEN <<state.meta.api_url>> ELSE discovered,
                                        1, <<>>, serve, up[WET_SITE], words),
                                    serve |-> serve]])
    /\ Advance

\* the key of the announcement the list fragment or the probe makes of a listing
BtkKey(l) == Key(Ann(BTK_SITE, l.title, BtkUrl(l.n), NoMeta))

\* _btk_formatter for the item of key k; dfail: its detail request fails
BtkFormat(k, items, dfail) ==
    LET a == CHOOSE x \in Range(UniqByKey(items)) : Key(x) = k
        L == {l \in up[BTK_SITE] : BtkKey(l) = k}
    IN  IF L = {} \/ dfail
        THEN format_bedrijventekoop_enriched(a, TRUE, NoMeta, words)
        ELSE format_bedrijventekoop_enriched(a, FALSE, (CHOOSE l \in L : TRUE).detail,
                                             words)

BtkInactive(k) ==
    \E l \in up[BTK_SITE] : BtkKey(l) = k /\ Get(l.detail, "inactive") = TRUE_TEXT

\* the largest id Bedrijventekoop lists
MaxLive == IF up[BTK_SITE] = {} THEN 0
           ELSE CHOOSE n \in {l.n : l \in up[BTK_SITE]} :
                    \A l \in up[BTK_SITE] : l.n <= n

\* run_site_direct for Bedrijventekoop once fetch_btk_listings returned
BtkProcess(st, d, items, dropped, failed, fb) ==
    \E v \in {st.seen[BTK_SITE]} :
    \E todo \in {Todo(v, items, words)} :
    \E dfail \in [todo -> bnd.dfail], snd \in [todo -> bnd.scripts] :
    \E fmt \in {[k \in todo |-> BtkFormat(k, items, dfail[k])]} :
    \E r \in {DirectBody(v, items, [deny |-> words, conf |-> configured,
                                     fmt |-> fmt, snd |-> snd])} :
       Record(BTK_SITE, st, d, items, todo, r,
              Hits(v, items, words) \cup dropped
                \cup {k \in todo : fmt[k] = "none" /\ (dfail[k] \/ ~BtkInactive(k))},
              failed, fb)

\* the live listings among the probed ids that the probe drops for a denylist term
ProbeDropped(v, probed, presp) ==
    {BtkKey(l) : l \in {x \in up[BTK_SITE] :
        /\ x.n \in Range(probed) /\ presp[x.n] # "raise"
        /\ BtkKey(x) \notin SeenOf(v)
        /\ Len(text_clean(x.title)) >= 3
        /\ forbidden_hit(Ann(BTK_SITE, text_clean(x.title), BtkUrl(x.n), x.probe),
                         words) # <<>>}}

\* main's run_site_direct call for Bedrijventekoop
RunBtk ==
    /\ pc = "site"
    /\ idx = Len(HTML_SITES) + 2
    /\ ~Unhashable(state.seen[BTK_SITE])
    /\ \/ FetchError(BTK_SITE)             \* the landing page request raises
       \/ \E P \in bnd.post :              \* the POST returns the listings P
          \E S \in {{l \in up[BTK_SITE] : l.n \in P}} :
             /\ S # {}
             /\ \E items \in {parse_btk_list_fragment(SetToSeq(S))} :
                   BtkProcess(state, dirty, items, {}, S # up[BTK_SITE],
                              [NoFb EXCEPT !.primary = "items"])
       \/ \E max_id \in bnd.maxids :       \* it returns none: the fallback
          \E presp \in [Range(ToProbe(state.meta.last_id, max_id)) -> bnd.presp] :
          \E f \in {fetch_btk_listings_fallback(state, dirty, max_id,
                                                 up[BTK_SITE], presp, words)} :
                 BtkProcess(f.state, f.dirty, f.items,
                            ProbeDropped(state.seen[BTK_SITE], f.probed, presp),
                            max_id # MaxLive \/ \E id \in DOMAIN presp : presp[id] = "raise",
                            [probed |-> f.probed, max_id |-> max_id,
                             fallback |-> TRUE, pages |-> <<>>, wet |-> NoWet,
                             primary |-> "empty"])
    /\ Advance

\* the end of main: if any_changed or STATE_DIRTY: save_state(state)
Finish ==
    /\ pc = "save"
    /\ file' = IF any_changed \/ dirty THEN save_state(state) ELSE file
    /\ cur' = [cur EXCEPT !.saved = any_changed \/ dirty]
    /\ pc' = "idle"
    /\ UNCHANGED <<state, idx, run, up, words, configured, any_changed, dirty,
                   log, ret, hist, bnd, pureVars>>

Next == Load \/ RunHtml \/ RunWet \/ RunBtk \/ Finish

(***************************************************************************)
(* Initial states                                                          *)
(***************************************************************************)
InitMainVarsFile(ups, b, files) ==
    /\ file \in files
    /\ state = EmptyState
    /\ pc = "idle"
    /\ idx = 1
    /\ run = 0
    /\ up \in ups
    /\ words = FORBIDDEN_WORDS
    /\ configured = TRUE
    /\ any_changed = FALSE
    /\ dirty = FALSE
    /\ log = <<>>
    /\ ret = [s \in SITES |-> <<>>]
    /\ cur = FreshCur
    /\ hist = FreshHist
    /\ bnd = b

InitMainVars(ups, b) == InitMainVarsFile(ups, b, {NoFile})

InitMain(ups, b) ==
    /\ InitMainVars(ups, b)
    /\ arg = <<>>
    /\ res = <<>>
    /\ ppc = "off"

UpOf(cofim, car, wet, btk) ==
    [s \in SITES |-> IF s = "cofim" THEN cofim
                     ELSE IF s = "commerce-a-remettre" THEN car
                     ELSE IF s = WET_SITE THEN wet
                     ELSE IF s = BTK_SITE THEN btk
                     ELSE {}]

\* the bounds of the plain behaviours: every request answered, one transport
Plain ==
    [runs |-> MaxRuns, deny |-> {FORBIDDEN_WORDS}, conf |-> {TRUE},
     scripts |-> {<<OK200, OK200, OK200>>, <<E400, E400, E400>>,
                  <<RAISES, RAISES, RAISES>>},
     fails |-> {{}}, disc |-> {ENDPOINTS}, serve |-> {{ENDPOINTS[1]}},
     post |-> {(ID_BASE + 1)..(ID_BASE + MaxIds)}, maxids |-> {0},
     presp |-> {"page"}, dfail |-> {FALSE}, fmt |-> {"body"}]

\* The whole driver over small sources, two of them live at a time.
UpsAll ==
    { UpOf(CofimSmall, CarSmall, {}, {}), UpOf(CofimSmall, {}, WetSmall, {}),
      UpOf({}, CarSmall, {}, BtkSmall),   UpOf({}, {}, WetSmall, BtkSmall) }

Init ==
    InitMain(UpsAll, [Plain EXCEPT !.fails = {{}, {2}},
                                   !.serve = {{}, {ENDPOINTS[1]}},
                                   !.conf = {TRUE, FALSE}])

Spec == Init /\ [][Next]_vars

\* One source with more new items than the cap lets through, under every
\* transport.
InitHtml == InitMain({UpOf(CofimRich, {}, {}, {})}, [Plain EXCEPT !.scripts = Scripts])

SpecHtml == InitHtml /\ [][Next]_vars

\* The denylist is edited between runs.
InitDeny ==
    InitMain({UpOf(CofimSmall, {}, WetSmall, {}), UpOf({}, {}, WetSmall, BtkSmall)},
             [Plain EXCEPT !.deny = {FORBIDDEN_WORDS, <<>>}])

SpecDeny == InitDeny /\ [][Next]_vars

\* Bedrijventekoop over one more run, its search returning no listing: every
\* run that reaches the source takes the ID-probing fallback.
InitBtk ==
    InitMain({UpOf({}, {}, {}, BtkRich)},
             [Plain EXCEPT !.runs = MaxRuns + 1, !.post = {},
                           !.scripts = {<<OK200, OK200, OK200>>,
                                        <<RAISES, RAISES, RAISES>>},
                           !.maxids = {0, ID_BASE, ID_BASE + MaxIds}])

SpecBtk == InitBtk /\ [][Next]_vars

\* Every kind of error a source can have: a page whose fetch raises, a
\* discovery that raises, a formatter that raises, a send that raises.
InitErr ==
    InitMain(UpsAll, [Plain EXCEPT !.fails = {{}, {1}},
                                   !.fmt = {"body", "raise"},
                                   !.serve = {{}, {ENDPOINTS[1]}},
                                   !.scripts = {<<OK200, OK200, OK200>>,
                                                <<RAISES, RAISES, RAISES>>}])

SpecErr == InitErr /\ [][Next]_vars

\* One source over three pages, the second or the third of which may fail.
InitPages ==
    InitMain({UpOf(CofimPages, {}, {}, {})},
             [Plain EXCEPT !.fails = {{}, {2}, {3}},
                           !.scripts = {<<OK200, OK200, OK200>>,
                                        <<RAISES, RAISES, RAISES>>}])

SpecPages == InitPages /\ [][Next]_vars

\* The ID-probing fallback over ids that are found, gone or filtered, with
\* probe requests that may raise.
InitProbe ==
    InitMain({UpOf({}, {}, {}, BtkGap)},
             [Plain EXCEPT !.runs = MaxRuns + 1, !.post = {},
                           !.presp = {"page", "raise"},
                           !.maxids = {0, ID_BASE, ID_BASE + MaxIds}])

SpecProbe == InitProbe /\ [][Next]_vars

\* WE Transmission over three runs, each with its own set of endpoints that
\* serve listings.
InitWet ==
    InitMain({UpOf({}, {}, WetSmall, {})},
             [Plain EXCEPT !.runs = MaxRuns + 1,
                           !.serve = SUBSET Range(ENDPOINTS)])

SpecWet == InitWet /\ [][Next]_vars

\* The process is stopped between two steps of main: what it held in memory is
\* gone, the file is what it was.
Kill ==
    /\ pc \in {"site", "save"}
    /\ pc' = "idle"
    /\ cur' = [cur EXCEPT !.killed = TRUE]
    /\ UNCHANGED <<file, state, idx, run, up, words, configured, any_changed,
                   dirty, log, ret, hist, bnd, pureVars>>

NextKill == Next \/ Kill

\* seen = set(state.get(site_name, [])) raises in a runner: nothing catches
\* it, main ends there.
RunnerRaises ==
    /\ pc = "site"
    /\ Unhashable(state.seen[ORDER[idx]])
    /\ pc' = "idle"
    /\ cur' = [cur EXCEPT !.raised = TRUE]
    /\ UNCHANGED <<file, state, idx, run, up, words, configured, any_changed,
                   dirty, log, ret, hist, bnd, pureVars>>

NextEdit == Next \/ RunnerRaises

\* a value of state[site] that is a list of numbers
Numbers(site) ==
    [kind |-> "list", keys |-> {[site |-> site, kind |-> "num", val |-> <<49>>]}]

FileWith(form, site, v) ==
    [exists |-> TRUE, form |-> form,
     data |-> [EmptyState EXCEPT !.seen[site] = v]]

\* state files as an editor can leave them
EditedFiles ==
    {NoFile}
      \cup {FileWith(form, "cofim", Absent) : form \in {"garbage", "array"}}
      \cup {FileWith("object", site, [kind |-> k, keys |-> {}]) :
               site \in {"cofim", WET_SITE}, k \in {"dict", "badlist", "scalar"}}
      \cup {FileWith("object", "cofim", Numbers("cofim"))}

InitEdit ==
    /\ InitMainVarsFile({UpOf(CofimSmall, {}, WetSmall, {})}, Plain, EditedFiles)
    /\ arg = <<>>
    /\ res = <<>>
    /\ ppc = "off"

SpecEdit == InitEdit /\ [][NextEdit]_vars

InitKill == InitMain({UpOf(CofimSmall, {}, WetSmall, {})}, Plain)

SpecKill == InitKill /\ [][NextKill]_vars

(***************************************************************************)
(* The Identity Key of a WE Transmission record, as a function             *)
(***************************************************************************)
\* a JSON record with the fields that are given (<<>>: the field is missing)
WetRec(title, id, url, slug) ==
    [f \in {"title"} \cup (IF id # <<>> THEN {"id"} ELSE {})
                     \cup (IF url # <<>> THEN {"url"} ELSE {})
                     \cup (IF slug # <<>> THEN {"slug"} ELSE {}) |->
        IF f = "title" THEN title ELSE IF f = "id" THEN id
        ELSE IF f = "url" THEN url ELSE slug]

\* the ids 991, 7 and ab
ID991 == <<57,57,49>>
ID7   == <<55>>
IDAB  == <<97,98>>

\* the paths /123/listing-991-x, /listing-991-x, offres/55/7 and /vente/x
URL123   == <<47,49,50,51,47,108,105,115,116,105,110,103,45,57,57,49,45,120>>
URLNONUM == <<47,108,105,115,116,105,110,103,45,57,57,49,45,120>>
URLREL   == <<111,102,102,114,101,115,47,53,53,47,55>>
URLPLAIN == <<47,118,101,110,116,101,47,120>>

KeyInputs ==
    {WetRec(t, i, u, g) : t \in {GARAGE, BAR}, i \in {<<>>, ID991, ID7, IDAB},
                          u \in {<<>>, URL123, URLNONUM, URLREL, URLPLAIN},
                          g \in {<<>>, <<120>>}}

InitKey ==
    /\ InitMainVars({UpOf({}, {}, {}, {})}, Plain)
    /\ arg \in KeyInputs
    /\ res = <<>>
    /\ ppc = "in"

\* one record through wet_items_to_announcements' conversion, and the key of
\* the announcement it makes
Convert ==
    /\ ppc = "in"
    /\ \E a \in {WetAnn(arg)} :
          res' = [ann |-> a, key |-> Key(a)]
    /\ ppc' = "out"
    /\ UNCHANGED <<mainVars, arg>>

NextKey == Convert

SpecKey == InitKey /\ [][NextKey]_vars

(***************************************************************************)
(* Two announcements of one source through the runner's dedup              *)
(***************************************************************************)
\* the paths /123/a, /123/b, /a/123, /x/garage, /y/garage, /garage, /456,
\* /a/456/123 and the empty URL
PairUrls ==
    { <<47,49,50,51,47,97>>, <<47,49,50,51,47,98>>, <<47,97,47,49,50,51>>,
      <<47,120,47>> \o MapLower(GARAGE), <<47,121,47>> \o MapLower(GARAGE),
      <<47>> \o MapLower(GARAGE), <<47,52,53,54>>,
      <<47,97,47,52,53,54,47,49,50,51>>, <<>> }

\* the second announcement with or without a teaser
PairInputs ==
    {<<Ann("cofim", t1, u1, NoMeta), Ann("cofim", t2, u2, m2)>> :
        t1 \in {GARAGE, ATELIER}, t2 \in {GARAGE, ATELIER},
        u1 \in PairUrls, u2 \in PairUrls, m2 \in {NoMeta, Field("teaser", BAR)}}

InitPair ==
    /\ InitMainVars({UpOf({}, {}, {}, {})}, Plain)
    /\ arg \in PairInputs
    /\ res = <<>>
    /\ ppc = "in"

\* the keys of the two announcements and what "Dedup by key" keeps of them
DedupPair ==
    /\ ppc = "in"
    /\ res' = [keys |-> <<Key(arg[1]), Key(arg[2])>>, items |-> UniqByKey(arg)]
    /\ ppc' = "out"
    /\ UNCHANGED <<mainVars, arg>>

NextPair == DedupPair

SpecPair == InitPair /\ [][NextPair]_vars

(***************************************************************************)
(* One message through send_telegram and the session of make_session       *)
(***************************************************************************)
E429LONG == Resp(FALSE, 429, 100)
E429BARE == Resp(FALSE, 429, 0)
E500     == Resp(FALSE, 500, 0)

\* the most HTTP requests one message can take
MaxWire == SEND_ATTEMPTS * (1 + RETRY_TOTAL)

\* the server answers the first k requests with x and every later one with y
Wire(x, k, y) == [n \in 1..(MaxWire + 1) |-> IF n <= k THEN x ELSE y]

SendInputs ==
    {[conf |-> c, wire |-> Wire(x, k, y)] :
        c \in BOOLEAN, x \in {E429, E429LONG, E429BARE, E500, RAISES},
        k \in 0..MaxWire, y \in {OK200, E400}}

InitSend ==
    /\ InitMainVars({UpOf({}, {}, {}, {})}, Plain)
    /\ arg \in SendInputs
    /\ res = <<>>
    /\ ppc = "in"

\* send_telegram for one message
SendOne ==
    /\ ppc = "in"
    /\ \E posts \in {Posts(arg.wire, 1, SEND_ATTEMPTS)} :
       \E r \in {send_telegram(arg.conf, posts)} :
          res' = [r |-> r, posts |-> posts,
                  requests |-> Requests(arg.wire, 1, r.attempts)]
    /\ ppc' = "out"
    /\ UNCHANGED <<mainVars, arg>>

NextSend == SendOne

SpecSend == InitSend /\ [][NextSend]_vars

(***************************************************************************)
(* One announcement through forbidden_hit                                  *)
(***************************************************************************)
\* the attributes an announcement can carry: those forbidden_hit reads and one
\* it does not
ATTRIBUTES == Range(HAY_FIELDS) \cup {"overname"}

\* an announcement with one attribute, under a denylist
FilterInputs ==
    {[ann |-> Ann("cofim", t, <<47,97>>, Field(f, v)), deny |-> d] :
        t \in {GARAGE, BAR}, f \in ATTRIBUTES, v \in {HORECA, ATELIER, BAR},
        d \in {FORBIDDEN_WORDS, <<>>, <<BAR, HORECA>>}}

InitFilter ==
    /\ InitMainVars({UpOf({}, {}, {}, {})}, Plain)
    /\ arg \in FilterInputs
    /\ res = <<>>
    /\ ppc = "in"

\* forbidden_hit(ann)
Filter ==
    /\ ppc = "in"
    /\ res' = [hit |-> forbidden_hit(arg.ann, arg.deny)]
    /\ ppc' = "out"
    /\ UNCHANGED <<mainVars, arg>>

NextFilter == Filter

SpecFilter == InitFilter /\ [][NextFilter]_vars

(***************************************************************************)
(* The same fetched items through run_site and through run_site_direct     *)
(***************************************************************************)
\* the announcements a fetch can return: /a Bar, /b Garage, /c Atelier,
\* /d Garage
RunnerPool ==
    { Ann("cofim", BAR, <<47,97>>, NoMeta), Ann("cofim", GARAGE, <<47,98>>, NoMeta),
      Ann("cofim", ATELIER, <<47,99>>, NoMeta), Ann("cofim", GARAGE, <<47,100>>, NoMeta) }

RunnerKeys == {Key(a) : a \in RunnerPool}

\* three fetched items in any order, repeats included; state[site] absent or
\* holding the key of /c; every outcome of the formatter and of the send for
\* the items that pass the filter (/a is filtered out before both)
RunnerInputs ==
    {[v |-> v, items |-> <<x, y, z>>,
      e |-> [deny |-> FORBIDDEN_WORDS, conf |-> TRUE, fmt |-> fmt, snd |-> snd]] :
        v \in {Absent, ListOf({Key(Ann("cofim", ATELIER, <<47,99>>, NoMeta))})},
        x \in RunnerPool, y \in RunnerPool, z \in RunnerPool,
        fmt \in {f \in [RunnerKeys -> {"body", "none", "raise"}] :
                    f[Key(Ann("cofim", BAR, <<47,97>>, NoMeta))] = "body"},
        snd \in {f \in [RunnerKeys -> {<<OK200, OK200, OK200>>,
                                        <<RAISES, RAISES, RAISES>>}] :
                    f[Key(Ann("cofim", BAR, <<47,97>>, NoMeta))]
                        = <<OK200, OK200, OK200>>}}

InitRunners ==
    /\ InitMainVars({UpOf({}, {}, {}, {})}, Plain)
    /\ arg \in RunnerInputs
    /\ res = <<>>
    /\ ppc = "in"

\* both runners from "Dedup by key" on, for the same items, state and outcomes
BothRunners ==
    /\ ppc = "in"
    /\ res' = [site   |-> RunSiteBody(arg.v, arg.items, arg.e),
               direct |-> DirectBody(arg.v, arg.items, arg.e)]
    /\ ppc' = "out"
    /\ UNCHANGED <<mainVars, arg>>

NextRunners == BothRunners

SpecRunners == InitRunners /\ [][NextRunners]_vars

\* /a, /b, /c, /d fetched into an empty state, with and without bot token and
\* chat id; per item the formatter returns a body or None and the transport
\* delivers, refuses with a 400 or raises
StepInputs ==
    {[v |-> Absent,
      items |-> <<Ann("cofim", BAR, <<47,97>>, NoMeta),
                  Ann("cofim", GARAGE, <<47,98>>, NoMeta),
                  Ann("cofim", ATELIER, <<47,99>>, NoMeta),
                  Ann("cofim", GARAGE, <<47,100>>, NoMeta)>>,
      e |-> [deny |-> FORBIDDEN_WORDS, conf |-> conf, fmt |-> fmt, snd |-> snd]] :
        conf \in {TRUE, FALSE},
        fmt \in [RunnerKeys -> {"body", "none"}],
        snd \in [RunnerKeys -> {<<OK200, OK200, OK200>>, <<E400, E400, E400>>,
                                <<RAISES, RAISES, RAISES>>}]}

InitSteps ==
    /\ InitMainVars({UpOf({}, {}, {}, {})}, Plain)
    /\ arg \in StepInputs
    /\ res = <<>>
    /\ ppc = "in"

SpecSteps == InitSteps /\ [][NextRunners]_vars

(***************************************************************************)
(* Properties                                                              *)
(***************************************************************************)
\* a run of main has completed and saved
Done == pc = "idle" /\ run > 0

\* the keys of every source's seen-set in st
AllSeen(st) == UNION {SeenOf(st.seen[s]) : s \in SITES}

\* the positions of log where send_telegram was called
Notified == {i \in 1..Len(log) : log[i].ev \in {"sent", "send_error"}}

\* the keys of the items a source's adapter returned in this run
Returned(site) == {Key(ret[site][i]) : i \in 1..Len(ret[site])}

\* every adapter returned in this run what it returned in the run before
SameItems == ret = hist.ret

\* C1: a key whose notification was delivered, in an earlier run or earlier in
\* this run, is not handed to send_telegram again.
C1_AtMostOneNotify ==
    \A i \in Notified :
        /\ log[i].key \notin hist.okEver
        /\ \A j \in 1..(i - 1) : log[j].delivered => log[j].key # log[i].key

\* a key delivered in an earlier run is returned by its source again, in a run
\* that completed
C1_DeliveredSeenAgain ==
    /\ Done /\ run >= 2
    /\ \E k \in hist.okEver : k \in Returned(k.site)

\* C2: when the transport was asked and the notification was not delivered,
\* the runner does not count the item as sent and its key is not in the
\* seen-set the run leaves.
C2_FailedDeliveryNotMarked ==
    Done => \A i \in Notified :
                (log[i].attempts > 0 /\ ~log[i].delivered)
                    => /\ log[i].ev # "sent"
                       /\ log[i].key \notin AllSeen(state)

\* C3 as corrected: when every adapter returns in a run what it returned in
\* the run before, and the run before neither stopped at the cap nor had a
\* send raise, the run calls send_telegram for no item.
C3_SecondRunSilent ==
    (Done /\ run >= 2 /\ SameItems /\ hist.clean) => Notified = {}

\* a second run over the same items, after a first run that delivered
C3_SecondRunAfterDelivery ==
    /\ Done /\ run >= 2 /\ SameItems /\ hist.clean
    /\ hist.okEver # {}
    /\ \E k \in hist.okEver : k \in Returned(k.site)

\* C3 as stated: the second of two runs over the same items notifies nothing,
\* whatever the first run did.
C3_SecondRunSilentAlways ==
    (Done /\ run >= 2 /\ SameItems) => Notified = {}

\* the number of new unfiltered items of a source in this run, and how many
\* of them the run left out of its seen-set
NewUnfiltered(site) == Cardinality({k \in cur.todo : k.site = site})
LeftUnseen(site) == Cardinality({k \in cur.pending : k.site = site})

\* every item of the source that the loop reached gave a message body and its
\* send returned
Smooth(site) ==
    \A i \in 1..Len(log) :
        log[i].key.site = site
            => log[i].ev \notin {"send_error", "no_body", "format_error"}

\* C4 as corrected: a source's runner sends at most the cap; with more new
\* unfiltered items than the cap, every formatter call giving a body and no
\* send raising, it sends exactly the cap and leaves exactly the others
\* out of the seen-set.
C4_CapEnforced ==
    Done => \A s \in SITES :
                /\ cur.sent[s] <= MAX_NEW_PER_RUN
                /\ (NewUnfiltered(s) > MAX_NEW_PER_RUN /\ Smooth(s))
                      => /\ cur.sent[s] = MAX_NEW_PER_RUN
                         /\ LeftUnseen(s) = NewUnfiltered(s) - MAX_NEW_PER_RUN

\* a source had more new unfiltered items than the cap and stopped at it
C4_StoppedAtCap ==
    /\ Done
    /\ \E s \in SITES :
          /\ NewUnfiltered(s) > MAX_NEW_PER_RUN /\ Smooth(s)
          /\ cur.sent[s] = MAX_NEW_PER_RUN
          /\ \E i \in 1..Len(log) : log[i].key.site = s /\ log[i].ev = "break"

\* C4 as stated: with more new unfiltered items than the cap, exactly the cap
\* is sent and exactly the others are left out of the seen-set.
C4_CapExact ==
    Done => \A s \in SITES :
                NewUnfiltered(s) > MAX_NEW_PER_RUN
                   => /\ cur.sent[s] = MAX_NEW_PER_RUN
                      /\ LeftUnseen(s) = NewUnfiltered(s) - MAX_NEW_PER_RUN

\* C5: every new item of the run that matches the denylist is in its source's
\* seen-set when the run ends, and send_telegram was not called for it.
C5_MatchedMarkedSeen ==
    Done => /\ cur.matched \subseteq AllSeen(state)
            /\ \A i \in Notified : log[i].key \notin cur.matched

\* C6: send_telegram is never called for a key that matched the denylist in
\* an earlier run.
C6_FilterPermanent ==
    \A i \in Notified : log[i].key \notin hist.matchedEver

\* C7: when no request of the run fails and every source shows all it lists,
\* each item the run before left unseen is returned by its source again.
C7_UnseenPresentedAgain ==
    (Done /\ run >= 2 /\ ~cur.errors)
        => \A k \in hist.pending : k \in Returned(k.site)

\* C8: one run of main sends at most MAX_NEW_PER_RUN notifications over all
\* its sources.
C8_GlobalCap ==
    Done => Cardinality({i \in 1..Len(log) : log[i].ev = "sent"}) <= MAX_NEW_PER_RUN

\* the purely numeric segments of a path
HasNumericSegment(url) ==
    \E i \in 1..Len(Segments(url)) : isdigit(Segments(url)[i])

Seed == IF hist.seed # 0 THEN hist.seed ELSE cur.last0

\* C10: a fallback run that finds no last_id recorded probes nothing, returns
\* no item and records the maximum id it discovered; a fallback run that finds
\* last_id probes last_id + 1, last_id + 2, ... and nothing above the
\* maximum it discovered, all of them when the probe budget allows, and never
\* an id at or below the first last_id recorded.
C10_SeedThenProbeAbove ==
    /\ (pc \in {"save", "idle"} /\ cur.fallback /\ cur.last0 = 0)
          => /\ cur.probed = <<>>
             /\ ret[BTK_SITE] = <<>>
             /\ (cur.max_id > 0 => state.meta.last_id = cur.max_id)
    /\ \A i \in 1..Len(cur.probed) :
          /\ cur.probed[i] = cur.last0 + i
          /\ cur.probed[i] <= cur.max_id
          /\ cur.probed[i] > Seed
    /\ (pc \in {"save", "idle"} /\ cur.fallback /\ cur.last0 > 0
          /\ cur.max_id > cur.last0
          /\ cur.max_id - cur.last0 <= BTK_MAX_PROBE_PER_RUN)
          => Range(cur.probed) = (cur.last0 + 1)..cur.max_id

\* a run seeded last_id and a later run probed above it
C10_ProbedAfterSeed ==
    /\ Done /\ run >= 2
    /\ hist.seed > 0
    /\ cur.fallback /\ cur.probed # <<>>

\* some source's seen-set holds a key it did not hold when the run loaded state
KeysAdded ==
    \E s \in SITES : SeenOf(state.seen[s]) \ SeenOf(cur.loaded.seen[s]) # {}

\* some field of _meta holds another value than when the run loaded state
MetaChanged == state.meta # cur.loaded.meta

\* no runner found a new item in this run
NothingNew == \A s \in SITES : cur.new[s] = 0

\* C11: a run of main calls save_state exactly when a source added a key to
\* its seen-set or a meta field changed value in that run; a run in which no
\* source has a new item and no meta value changes does not call it, and
\* leaves every state[site] as it was loaded.
C11_WriteIffChanged ==
    Done => /\ cur.saved <=> (KeysAdded \/ MetaChanged)
            /\ (NothingNew /\ ~MetaChanged)
                  => /\ ~cur.saved
                     /\ state.seen = cur.loaded.seen
                     /\ file = cur.file0

\* a run that added no key wrote the file because a meta field changed
C11_WrittenForMetaAlone ==
    Done /\ cur.saved /\ ~KeysAdded /\ MetaChanged

\* C12: while a run of main is in progress the state file is as the run
\* found it, and it still is when the process is stopped before the final
\* save or when the run ends without saving; whatever happens, every key the
\* file held when the run started is in the file afterwards.
C12_FileOnlyAtEnd ==
    /\ pc \in {"site", "save"} => file = cur.file0
    /\ (pc = "idle" /\ (cur.killed \/ ~cur.saved)) => file = cur.file0
    /\ \A s \in SITES :
          SeenOf(cur.file0.data.seen[s]) \subseteq SeenOf(file.data.seen[s])

\* a run delivers a notification that a run stopped before its save had
\* delivered already
C12_NotifiedAgainAfterKill ==
    /\ Done /\ ~cur.killed
    /\ \E i \in Notified : log[i].delivered /\ log[i].key \in hist.okEver

\* C13: whatever failed in the sources before it, main calls the runner of
\* every source, in the fixed order, and only then decides about the save.
C13_EverySourceAttempted ==
    /\ Len(cur.visited) <= Len(ORDER)
    /\ cur.visited = SubSeq(ORDER, 1, Len(cur.visited))
    /\ pc = "site" => Len(cur.visited) = idx - 1
    /\ (pc = "save" \/ Done) => cur.visited = ORDER

\* a run had a page that failed, a formatter that raised and a send that
\* raised, and went through every source
C13_ErrorsThenAllSources ==
    /\ Done /\ cur.errors
    /\ \E i \in 1..Len(log) : log[i].ev = "format_error"
    /\ \E i \in 1..Len(log) : log[i].ev = "send_error"
    /\ cur.visited = ORDER

\* C14: no run of main ends with an exception, whatever the state file held.
C14_EditedFileNeverRaises == ~cur.raised

\* C15: no step of the program, in a run or from one run to the next, takes
\* a key out of a source's seen-set, in memory or in the state file.
C15_SeenSetsGrow ==
    [][\A s \in SITES :
          /\ SeenOf(state.seen[s]) \subseteq SeenOf(state'.seen[s])
          /\ SeenOf(load_state(file).seen[s]) \subseteq SeenOf(load_state(file').seen[s])]_vars

\* a second run added a key to a seen-set that the first run had saved with
\* a key in it
C15_GrewTwice ==
    /\ Done /\ run >= 2 /\ cur.saved
    /\ \E s \in SITES :
          /\ SeenOf(cur.loaded.seen[s]) # {}
          /\ SeenOf(cur.loaded.seen[s]) \subseteq SeenOf(file.data.seen[s])
          /\ SeenOf(file.data.seen[s]) \ SeenOf(cur.loaded.seen[s]) # {}

\* C16: every source's pages are requested in increasing order from page 1,
\* never more of them than the limit, and none after a page other than the
\* first that gave no item.
C16_StopsAtEmptyPage ==
    \A s \in Range(HTML_SITES) \cup {WET_SITE} :
        /\ \A i \in 1..Len(cur.pages[s]) : cur.pages[s][i].page = i
        /\ Len(cur.pages[s]) <= (IF s = WET_SITE THEN WET_PAGES_TO_TRY
                                  ELSE MAX_PAGES[s])
        /\ \A i \in 2..Len(cur.pages[s]) :
              cur.pages[s][i].n = 0 => i = Len(cur.pages[s])

\* the items of the pages of a source that were fetched in this run, and the
\* keys that only its failed pages hold
GoodItems(s) ==
    UNION {Range(FetchFn(s, cur.pages[s][i].page)) :
             i \in {j \in 1..Len(cur.pages[s]) : ~cur.pages[s][j].failed}}

OnlyOnFailed(s) ==
    {Key(a) : a \in UNION {Range(FetchFn(s, cur.pages[s][i].page)) :
                             i \in {j \in 1..Len(cur.pages[s]) : cur.pages[s][j].failed}}}
        \ {Key(a) : a \in GoodItems(s)}

LogOf(s) == {i \in 1..Len(log) : log[i].key.site = s}

\* C17: when pages of a page-based source fail, the run still requests all
\* its pages and handles the items of the pages that were fetched, those
\* before and those after a failed page, as a run does: it counts the new
\* keys among them, marks seen those that match the denylist and hands the
\* others to the notifier until the loop stops at the cap; no key that only
\* a failed page holds is handled or marked seen.
C17_FailedPageSkipped ==
    \A s \in Range(HTML_SITES) :
        s \in Range(cur.visited) =>
            /\ Len(cur.pages[s]) = MAX_PAGES[s]
            /\ cur.new[s] = Cardinality({Key(a) : a \in GoodItems(s)}
                                         \ SeenOf(cur.loaded.seen[s]))
            /\ \A a \in GoodItems(s) :
                  Key(a) \notin SeenOf(cur.loaded.seen[s])
                     => IF forbidden_hit(a, words) # <<>>
                        THEN Key(a) \in SeenOf(state.seen[s])
                        ELSE \/ \E i \in LogOf(s) : log[i].key = Key(a)
                             \/ \E i \in LogOf(s) : log[i].ev = "break"
            /\ \A k \in OnlyOnFailed(s) \ SeenOf(cur.loaded.seen[s]) :
                  /\ k \notin SeenOf(state.seen[s])
                  /\ \A i \in LogOf(s) : log[i].key # k

\* the second of three pages failed, and an item of the first and an item of
\* the third were notified
C17_MiddlePageFailed ==
    /\ Done
    /\ Len(cur.pages["cofim"]) = 3
    /\ ~cur.pages["cofim"][1].failed /\ cur.pages["cofim"][2].failed
    /\ ~cur.pages["cofim"][3].failed
    /\ \E a \in Range(FetchFn("cofim", 1)), b \in Range(FetchFn("cofim", 3)) :
          \E i, j \in LogOf("cofim") :
             /\ log[i].key = Key(a) /\ log[i].ev = "sent"
             /\ log[j].key = Key(b) /\ log[j].ev = "sent"
    /\ OnlyOnFailed("cofim") # {}

\* C18: two announcements of one source with different URLs have different
\* keys, and the dedup by key keeps both.
C18_DistinctUrlsDistinctKeys ==
    (ppc = "out" /\ arg[1].url # arg[2].url)
        => /\ res.keys[1] # res.keys[2]
           /\ Len(res.items) = 2

\* C19: the key of an announcement is its source with the first all-digit
\* segment of its URL path, without such a segment the source with the last
\* segment of the path, and without any segment the source with the digest of
\* url, "||" and title; two announcements of one source with the same URL,
\* whose path has a segment, have the same key whatever their titles and
\* attributes.
C19_KeyFromPathOnly ==
    ppc = "out" =>
        /\ \A n \in {1, 2} :
              LET segs == Segments(arg[n].url)
                  nums == {i \in 1..Len(segs) : isdigit(segs[i])}
              IN  /\ res.keys[n].site = arg[n].site
                  /\ nums # {} =>
                        \E i \in nums : /\ \A j \in nums : i <= j
                                         /\ res.keys[n].val = segs[i]
                                         /\ res.keys[n].kind = "seg"
                  /\ (nums = {} /\ segs # <<>>) =>
                        /\ res.keys[n].val = segs[Len(segs)]
                        /\ res.keys[n].kind = "seg"
                  /\ segs = <<>> =>
                        /\ res.keys[n].kind = "sha256"
                        /\ res.keys[n].val =
                              sha256(arg[n].url \o <<124, 124>> \o arg[n].title)
        /\ (arg[1].url = arg[2].url /\ Segments(arg[1].url) # <<>>)
              => res.keys[1] = res.keys[2]

\* two announcements with the path /a/456/123, different titles and
\* different attributes got the key of the segment 456
C19_SameUrlOtherTitle ==
    /\ ppc = "out"
    /\ arg[1].url = <<47,97,47,52,53,54,47,49,50,51>> /\ arg[2].url = arg[1].url
    /\ arg[1].title # arg[2].title /\ arg[1].meta # arg[2].meta
    /\ res.keys[1] = res.keys[2]
    /\ res.keys[1].val = <<52,53,54>>

\* C20: a fallback run that finds last_id = L > 0 and discovers a maximum
\* M > L probes L+1, L+2, ... in that order, as many as the budget and M
\* allow and no more, and leaves last_id at the highest id it probed; last_id
\* never decreases in a run, and no id is probed that an earlier run probed.
C20_ProbeWindowAdvances ==
    /\ (pc \in {"save", "idle"} /\ cur.fallback /\ cur.last0 > 0
          /\ cur.max_id > cur.last0)
          => /\ Len(cur.probed) = Min(BTK_MAX_PROBE_PER_RUN, cur.max_id - cur.last0)
             /\ \A i \in 1..Len(cur.probed) :
                   /\ cur.probed[i] = cur.last0 + i
                   /\ cur.probed[i] <= cur.max_id
             /\ state.meta.last_id = cur.probed[Len(cur.probed)]
    /\ run > 0 => state.meta.last_id >= cur.last0
    /\ Range(cur.probed) \cap hist.probedEver = {}

\* a run probed 501 and 502, of which only one gave a listing, and recorded
\* 502
C20_ProbedAcrossGap ==
    /\ Done /\ cur.fallback
    /\ cur.probed = <<ID_BASE + 1, ID_BASE + 2>>
    /\ Len(ret[BTK_SITE]) = 1
    /\ state.meta.last_id = ID_BASE + 2

\* C21: without a cached endpoint fetch_wet_listings runs discovery, queries
\* the candidates in ranked order up to the first that returns an item and
\* stores that one in meta; with a cached endpoint it runs no discovery and
\* queries the cached endpoint only; an endpoint that meta or the state file
\* holds is never cleared or replaced.
C21_EndpointCachedForGood ==
    /\ (WET_SITE \in Range(cur.visited) /\ cur.wet.queried # <<>>
          /\ cur.loaded.meta.api_url = "")
          => /\ cur.wet.discovery
             /\ \A i \in 1..Len(cur.wet.queried) : cur.wet.queried[i] = ENDPOINTS[i]
             /\ \A i \in 1..(Len(cur.wet.queried) - 1) :
                   ENDPOINTS[i] \notin cur.wet.serve
             /\ IF \E i \in 1..Len(ENDPOINTS) : ENDPOINTS[i] \in cur.wet.serve
                THEN /\ state.meta.api_url = cur.wet.queried[Len(cur.wet.queried)]
                     /\ state.meta.api_url \in cur.wet.serve
                     /\ ret[WET_SITE] # <<>>
                ELSE /\ state.meta.api_url = ""
                     /\ cur.wet.queried = ENDPOINTS
    /\ (WET_SITE \in Range(cur.visited) /\ cur.loaded.meta.api_url # "")
          => /\ ~cur.wet.discovery
             /\ cur.wet.queried = <<cur.loaded.meta.api_url>>
    /\ (run > 0 /\ cur.loaded.meta.api_url # "")
          => state.meta.api_url = cur.loaded.meta.api_url
    /\ cur.file0.data.meta.api_url # ""
          => file.data.meta.api_url = cur.file0.data.meta.api_url

\* a run found the second-ranked endpoint cached, queried it alone and got
\* nothing from it, while the first-ranked endpoint was serving
C21_CachedKeptWhenSilent ==
    /\ Done /\ run >= 2
    /\ cur.loaded.meta.api_url = ENDPOINTS[2]
    /\ cur.wet.serve = {ENDPOINTS[1]}
    /\ cur.wet.queried = <<ENDPOINTS[2]>>
    /\ ret[WET_SITE] = <<>>
    /\ state.meta.api_url = ENDPOINTS[2]

\* C22: in every run in which fetch_btk_listings_via_post gave no listing,
\* because it returned none or because a request of it raised, the ID-probing
\* fallback was executed.
C22_FallbackWhenPrimaryFails ==
    cur.primary \in {"empty", "raised"} => cur.fallback

\* C23: an item whose formatter raised is not in the seen-set the run
\* leaves, and a key the run added to a seen-set belongs to an item that
\* matched the denylist, got no message body, or was handed to the notifier
\* without a raise.
C23_FormatErrorNotMarked ==
    Done => /\ \A i \in 1..Len(log) :
                  log[i].ev = "format_error" => log[i].key \notin AllSeen(state)
            /\ \A k \in AllSeen(state) \ AllSeen(cur.loaded) :
                  \E i \in 1..Len(log) :
                     /\ log[i].key = k
                     /\ log[i].ev \in {"filtered", "no_body", "sent"}

\* a response after which send_telegram goes on to another attempt
Retried(rr) == ~rr.raises /\ rr.status = 429 /\ rr.retry_after > 0

CLAIMED_FIELDS ==
    <<"location", "price", "teaser", "type", "sector", "description", "turnover">>

\* title and those attributes, lower-cased and without accents
ClaimedHay(a) ==
    norm_cmp(Join(<<a.title>>
                    \o [i \in 1..Len(CLAIMED_FIELDS) |-> Get(a.meta, CLAIMED_FIELDS[i])]))

\* C25: forbidden_hit returns the first term of the denylist, in its order,
\* that occurs in the title or in one of the attributes location, price,
\* teaser, type, sector, description, turnover, whatever the case and the
\* accents, and no match when none does; no other attribute has a part in
\* the result, and with an empty denylist there is no match.
C25_FilterReadsSevenFields ==
    ppc = "out" =>
        LET I == {i \in 1..Len(arg.deny) :
                     IsSubstr(norm_cmp(arg.deny[i]), ClaimedHay(arg.ann))}
        IN  /\ I = {} => res.hit = <<>>
            /\ I # {} => \E i \in I : /\ \A j \in I : i <= j
                                       /\ res.hit = norm_cmp(arg.deny[i])
            /\ arg.deny = <<>> => res.hit = <<>>

\* C26: for the same fetched items, the same state[site] and the same
\* outcomes of the formatter and of the sends, run_site and run_site_direct
\* handle the same items in the same order with the same outcome each, leave
\* the same value in state[site] and return the same (new, sent, changed).
C26_RunnersAgree ==
    ppc = "out" =>
        /\ res.site.trace = res.direct.trace
        /\ res.site.wrote = res.direct.wrote
        /\ res.site.value = res.direct.value
        /\ <<res.site.new, res.site.sent, res.site.changed>>
              = <<res.direct.new, res.direct.sent, res.direct.changed>>
        /\ \A i \in 1..(Len(res.site.trace) - 1) :
              \E a, b \in Range(arg.items) :
                 /\ Key(a) = res.site.trace[i].key
                 /\ Key(b) = res.site.trace[i + 1].key
                 /\ StrLess(a.url, b.url)

\* items fetched in descending order of URL, of which both runners sent two
\* and stopped at the cap
C26_UnsortedInputSentTwo ==
    /\ ppc = "out"
    /\ StrLess(arg.items[2].url, arg.items[1].url)
    /\ StrLess(arg.items[3].url, arg.items[2].url)
    /\ res.site.sent = MAX_NEW_PER_RUN /\ res.direct.sent = MAX_NEW_PER_RUN
    /\ \E i \in 1..Len(res.direct.trace) : res.direct.trace[i].ev = "break"

\* the positions of a runner's trace whose item reached the send step: it
\* passed the filter, the loop had not stopped at the cap, and the formatter
\* gave a body
AtSend(trace) ==
    {i \in 1..Len(trace) :
        /\ \E a \in Range(arg.items) :
              Key(a) = trace[i].key /\ forbidden_hit(a, arg.e.deny) = <<>>
        /\ trace[i].ev # "break"
        /\ arg.e.fmt[trace[i].key] = "body"}

\* the transport raises for the send of the item of key k, if it is called
TransportRaises(k) == arg.e.snd[k][1].raises

\* what one runner did with the items that reached the send step
StepHolds(r) ==
    /\ \A i \in AtSend(r.trace) :
          LET k == r.trace[i].key
              raised == arg.e.conf /\ TransportRaises(k)
          IN  /\ (r.trace[i].ev = "sent") <=> ~raised
              /\ (r.trace[i].ev = "send_error") <=> raised
              /\ (k \in SeenOf(r.value)) <=> ~raised
              /\ ~arg.e.conf => r.trace[i].attempts = 0
    /\ r.sent = Cardinality({i \in AtSend(r.trace) :
                     ~(arg.e.conf /\ TransportRaises(r.trace[i].key))})

\* C27: in run_site and in run_site_direct an item that reaches the send step
\* is counted as sent and its key put into seen exactly when send_telegram
\* did not raise, whether or not the message was delivered; without bot token
\* or chat id no request is made and every such item is counted and marked.
C27_SentIffNoRaise ==
    ppc = "out" => StepHolds(res.site) /\ StepHolds(res.direct)

\* without bot token or chat id: an item whose request would have raised is
\* counted as sent and marked seen, and no request was made for it
C27_UnconfiguredCountedSent ==
    /\ ppc = "out"
    /\ ~arg.e.conf
    /\ \E i \in AtSend(res.site.trace) :
          /\ TransportRaises(res.site.trace[i].key)
          /\ res.site.trace[i].ev = "sent"
          /\ res.site.trace[i].attempts = 0
          /\ ~res.site.trace[i].delivered
          /\ res.site.trace[i].key \in SeenOf(res.site.value)
    /\ res.site.sent = MAX_NEW_PER_RUN
    /\ res.direct = res.site

====
